---- MODULE Spec2Model ----
(***************************************************************************)
(* Model of SimulationService (src/src/services/simulation.service.ts) and *)
(* of the node grid (src/src/core/models.ts).                              *)
(*                                                                         *)
(* Number representation (the code uses IEEE doubles; the model uses       *)
(* fixed-point integers, rounding by truncation where a quotient is not    *)
(* exact):                                                                 *)
(*   frequencies            1/10 Hz         (FreqScale)                    *)
(*   amplitude, harmonic    1/10000         (0.4 = 4000, 4.0 = 40000)      *)
(*   energyLevel            1/1000          (0.1 = 100, 1.0 = 1000)        *)
(*   angular velocity       5e-7/sqrt(3) per component, so that the torque *)
(*                          of a corner node is sign * energyLevel         *)
(*   time                   50 ms                                          *)
(* Display-only fields (colour, pattern, intensity, baseColor) are not     *)
(* modelled.  Particle ids (random strings in the code) are fresh numbers. *)
(***************************************************************************)
EXTENDS Integers, Sequences, FiniteSets, TLC

VARIABLES particles, collisionEvents, supernovaEvents,
          gridAngularVelocity, gridRotation,
          timers, now, nextTick, nextId, env, last

vars == <<particles, collisionEvents, supernovaEvents,
          gridAngularVelocity, gridRotation,
          timers, now, nextTick, nextId, env, last>>

-----------------------------------------------------------------------------
(* SIM_CONFIG *)

GRID_SIZE == 7
SPACING == 4
FREQ_LOW == 100
FREQ_HIGH == 999
MAX_PARTICLES == 8
FreqScale == 10
DEFAULT_AMPLITUDE == 4000

(* Timer delays, in units of 50 ms *)
TICK_INTERVAL == 2
SPAWN_DELAY == 1
COLLISION_LIFETIME == 30
SUPERNOVA_LIFETIME == 40

-----------------------------------------------------------------------------
(* Arithmetic helpers *)

Abs(a) == IF a < 0 THEN -a ELSE a
Min(a, b) == IF a < b THEN a ELSE b
Max(a, b) == IF a > b THEN a ELSE b

(* Division truncating toward zero (the fixed-point stand-in for a double   *)
(* product) and the remainder of the JavaScript % operator (sign of the     *)
(* dividend).                                                               *)
TruncDiv(a, b) == IF a >= 0 THEN a \div b ELSE -((-a) \div b)
JsRem(a, b) == IF a >= 0 THEN a % b ELSE -((-a) % b)

RECURSIVE SumSeq(_)
SumSeq(s) == IF s = <<>> THEN 0 ELSE Head(s) + SumSeq(Tail(s))

(* The indices of the elements of s that pass Test, in increasing order.     *)
SelectIdx(s, Test(_)) ==
  SelectSeq([i \in 1..Len(s) |-> i], LAMBDA i : Test(s[i]))

-----------------------------------------------------------------------------
(* core/models.ts: calculateNodeFrequency.  pos is <<x, y, z>> in world     *)
(* units (integers).  twice == 2 * (xComp + yComp + zComp) is an integer;   *)
(* Math.round rounds halves up.  The result is in Hz.                       *)

calculateNodeFrequency(pos) ==
  LET twice == 3 * (pos[1] + 20) + 20 * (pos[2] + 20) + (pos[3] + 20)
      r == JsRem(twice, 2 * (FREQ_HIGH - FREQ_LOW))
  IN (2 * FREQ_LOW + r + 1) \div 2

(* simulation.service.ts: initializeNodes.  x outermost, z innermost.       *)
(* The loops run from -half to half, half == Math.floor(GRID_SIZE / 2).     *)
half == GRID_SIZE \div 2

LatticeOf(n, side, h) ==
  LET k == n - 1
  IN << (k \div (side * side)) - h,
        ((k \div side) % side) - h,
        (k % side) - h >>

LatticeAt(n) == LatticeOf(n, 2 * half + 1, half)

GridOfAnyExtreme(size, spacing) ==
  LET h == size \div 2
      side == 2 * h + 1
  IN [n \in 1..(side * side * side) |->
        LET c == LatticeOf(n, side, h)
            pos == << c[1] * spacing, c[2] * spacing, c[3] * spacing >>
        IN [ id |-> c,
             position |-> pos,
             frequency |-> calculateNodeFrequency(pos),
             isCorner |-> Abs(c[1]) = h \/ Abs(c[2]) = h \/ Abs(c[3]) = h ]]

GridOf(size, spacing) ==
  LET h == size \div 2
      side == 2 * h + 1
  IN [n \in 1..(side * side * side) |->
        LET c == LatticeOf(n, side, h)
            pos == << c[1] * spacing, c[2] * spacing, c[3] * spacing >>
        IN [ id |-> c,
             position |-> pos,
             frequency |-> calculateNodeFrequency(pos),
             isCorner |-> Abs(c[1]) = h /\ Abs(c[2]) = h /\ Abs(c[3]) = h ]]

initializeNodes == GridOf(GRID_SIZE, SPACING)

(* this.nodes(): the grid, held as one sequence value *)
nodes == initializeNodes \o <<>>

(* this.nodes().find(n => n.id === nodeId) *)
NodeById(nodeId) ==
  LET hits == { i \in 1..Len(nodes) : nodes[i].id = nodeId }
      first == CHOOSE i \in hits : \A j \in hits : i <= j
  IN IF hits = {} THEN [found |-> FALSE] ELSE [found |-> TRUE, node |-> nodes[first]]

(* findNearestNode: reduce without initial value; curr replaces prev only   *)
(* when strictly nearer.  freq is in 1/10 Hz, node frequencies in Hz.      *)
(* The fold is evaluated by halving the index range: the step "keep prev    *)
(* unless curr is strictly nearer" is associative, so the result is that of *)
(* the left-to-right reduce.                                                *)
NodeDist(n, freq) == Abs(n.frequency * FreqScale - freq)

NearerLast(prev, curr, freq) ==
  IF NodeDist(nodes[curr], freq) <= NodeDist(nodes[prev], freq) THEN curr ELSE prev

Nearer(prev, curr, freq) ==
  IF NodeDist(nodes[curr], freq) < NodeDist(nodes[prev], freq) THEN curr ELSE prev

findNearestNode(freq) ==
  LET RECURSIVE Go(_, _)
      Go(lo, hi) ==
        IF lo = hi THEN lo
        ELSE Nearer(Go(lo, (lo + hi) \div 2), Go((lo + hi) \div 2 + 1, hi), freq)
  IN IF Len(nodes) = 0 THEN 0 ELSE Go(1, Len(nodes))

(* The result of findNearestNode for the frequencies the sampled            *)
(* environment mostly produces, computed once; NearestIndex is              *)
(* findNearestNode, looked up where the table has it.                       *)
CachedFrequencies ==
  {400, 2800} \cup (1000..1100) \cup (1900..2300) \cup (4380..4580) \cup (4760..4880)

NearestTable == [f \in CachedFrequencies |-> findNearestNode(f)]

NearestIndex(freq) ==
  IF freq \in DOMAIN NearestTable THEN NearestTable[freq] ELSE findNearestNode(freq)

(* this.findNearestNode(freq)?.id || null *)
TargetIdOf(freq) ==
  LET n == NearestIndex(freq) IN IF n = 0 THEN <<>> ELSE nodes[n].id

-----------------------------------------------------------------------------
(* Vectors (angular velocity, positions) are triples of integers.           *)

ZeroVec == <<0, 0, 0>>
VecAdd(a, b) == << a[1] + b[1], a[2] + b[2], a[3] + b[3] >>
LengthSq(a) == a[1] * a[1] + a[2] * a[2] + a[3] * a[3]
Cross(a, b) == << a[2] * b[3] - a[3] * b[2],
                  a[3] * b[1] - a[1] * b[3],
                  a[1] * b[2] - a[2] * b[1] >>
Sign(a) == IF a > 0 THEN 1 ELSE IF a < 0 THEN -1 ELSE 0

(* lengthSq() > 0.000001 in the angular-velocity unit 5e-7/sqrt(3):         *)
(* sum of squares * 25e-14 / 3 > 1e-6.                                      *)
EPSILON_SQ == 12000000
NonNegligibleNonZero(av) == LengthSq(av) > 0

NonNegligible(av) == LengthSq(av) > EPSILON_SQ

(* v.multiplyScalar(0.97) *)
Damped(av) == << TruncDiv(av[1] * 97, 100), TruncDiv(av[2] * 97, 100),
                 TruncDiv(av[3] * 97, 100) >>

(* node.position.clone().normalize().multiplyScalar(energyLevel * 0.0005):  *)
(* for a corner node every component of the normalized position is          *)
(* sign / sqrt(3), which is energyLevel in the angular-velocity unit.       *)
Torque(node, energyLevel) ==
  << Sign(node.position[1]) * energyLevel, Sign(node.position[2]) * energyLevel,
     Sign(node.position[3]) * energyLevel >>

(* (influenceVec.x + influenceVec.y + influenceVec.z) * 25.0, in 1/10 Hz:  *)
(* 25 * 10 * 5e-7 / sqrt(3) = 7.22e-5.                                      *)
RotationalDrift(av, node) ==
  LET c == Cross(av, node.position)
  IN TruncDiv((c[1] + c[2] + c[3]) * 722, 10000000)

-----------------------------------------------------------------------------
(* Particle store                                                           *)

MIN_HARMONIC == 10000
MAX_HARMONIC == 40000
MAX_AMPLITUDE == 10000
MIN_ENERGY == 100
MAX_ENERGY == 1000
TORQUE_ENERGY == 200
AMP_DECAY == 50
HARMONIC_DECAY == 200
ENERGY_DECAY == 2
ENERGY_GAIN == 200
NoTarget == <<>>

NewParticle(id, freq) ==
  [ id |-> id,
    baseFrequency |-> freq,
    locationalFrequency |-> freq,
    harmonicFactor |-> MIN_HARMONIC,
    amplitude |-> DEFAULT_AMPLITUDE,
    energyLevel |-> MIN_ENERGY,
    targetNodeId |-> NoTarget ]

(* updateTargetNodes *)
updateTargetNodes(parts) ==
  [i \in 1..Len(parts) |->
     [parts[i] EXCEPT !.targetNodeId = TargetIdOf(parts[i].locationalFrequency)]]

(* spawnParticle, given the frequency drawn or derived (1/10 Hz) and the   *)
(* fresh id.                                                                *)
spawnParticleNoCap(parts, freq, id) ==
  updateTargetNodes(Append(parts, NewParticle(id, freq)))

spawnParticleEvicts(parts, freq, id) ==
  IF Len(parts) >= MAX_PARTICLES
  THEN updateTargetNodes(Append(Tail(parts), NewParticle(id, freq)))
  ELSE updateTargetNodes(Append(parts, NewParticle(id, freq)))

spawnParticleNoTarget(parts, freq, id) ==
  IF Len(parts) >= MAX_PARTICLES THEN parts
  ELSE Append(parts, NewParticle(id, freq))

spawnParticle(parts, freq, id) ==
  IF Len(parts) >= MAX_PARTICLES THEN parts
  ELSE updateTargetNodes(Append(parts, NewParticle(id, freq)))

(* The frequency of spawnParticle() without a position: a non-corner node   *)
(* picked at random plus (Math.random() - 0.5) * 10, or 200..800 when the   *)
(* grid has no non-corner node.  pick is the index drawn, jitter and        *)
(* fallback the random terms (1/10 Hz).                                    *)
nonCornerNodes == SelectIdx(nodes, LAMBDA n : ~n.isCorner)

RandomFrequencyWide(pick, jitter, fallback) ==
  IF Len(nonCornerNodes) > 0
  THEN nodes[nonCornerNodes[pick]].frequency * FreqScale + 2 * jitter
  ELSE 200 * FreqScale + fallback

RandomFrequency(pick, jitter, fallback) ==
  IF Len(nonCornerNodes) > 0
  THEN nodes[nonCornerNodes[pick]].frequency * FreqScale + jitter
  ELSE 200 * FreqScale + fallback

globalAmplitudeAtLeastUndivided(parts, level) ==
  Len(parts) > 0 /\
  SumSeq([i \in 1..Len(parts) |-> parts[i].amplitude]) >= level

globalAmplitudeAtLeastNoEmptyCase(parts, level) ==
  SumSeq([i \in 1..Len(parts) |-> parts[i].amplitude]) >= level * Len(parts)

(* globalAmplitude() >= 0.7, without the division *)
globalAmplitudeAtLeast(parts, level) ==
  Len(parts) > 0 /\
  SumSeq([i \in 1..Len(parts) |-> parts[i].amplitude]) >= level * Len(parts)

-----------------------------------------------------------------------------
(* processFieldDynamics                                                     *)

(* Step 1, one particle: drift (random jitter plus the rotational term),    *)
(* clamp, decay.  av is the angular velocity after this tick's damping.     *)
ClampFrequency(f) == Max(FREQ_LOW * FreqScale, Min(FREQ_HIGH * FreqScale, f))

DriftOfNoRotation(p, jitter, av) == jitter

DriftOf(p, jitter, av) ==
  IF NonNegligible(av) /\ NodeById(p.targetNodeId).found
  THEN jitter + RotationalDrift(av, NodeById(p.targetNodeId).node)
  ELSE jitter

DriftDecayNoFloor(p, jitter, av) ==
  [p EXCEPT !.locationalFrequency =
                ClampFrequency(p.locationalFrequency + DriftOf(p, jitter, av)),
            !.amplitude = p.amplitude - AMP_DECAY,
            !.harmonicFactor = p.harmonicFactor - HARMONIC_DECAY,
            !.energyLevel = p.energyLevel - ENERGY_DECAY]

DriftDecayKeepsEnergy(p, jitter, av) ==
  [p EXCEPT !.locationalFrequency =
                ClampFrequency(p.locationalFrequency + DriftOf(p, jitter, av)),
            !.amplitude = Max(DEFAULT_AMPLITUDE, p.amplitude - AMP_DECAY),
            !.harmonicFactor = Max(MIN_HARMONIC, p.harmonicFactor - HARMONIC_DECAY)]

DriftDecay(p, jitter, av) ==
  [p EXCEPT !.locationalFrequency =
                ClampFrequency(p.locationalFrequency + DriftOf(p, jitter, av)),
            !.amplitude = Max(DEFAULT_AMPLITUDE, p.amplitude - AMP_DECAY),
            !.harmonicFactor = Max(MIN_HARMONIC, p.harmonicFactor - HARMONIC_DECAY),
            !.energyLevel = Max(MIN_ENERGY, p.energyLevel - ENERGY_DECAY)]

(* Steps 1 and 2: the array `updated` with every target assigned.           *)
AssignTarget(q, t) == IF t = 0 THEN q ELSE [q EXCEPT !.targetNodeId = nodes[t].id]

AssignNearestStale(q) == q

AssignNearest(q) == AssignTarget(q, NearestIndex(q.locationalFrequency))

DriftAndAssign(parts, jit, av) ==
  [i \in 1..Len(parts) |-> AssignNearest(DriftDecay(parts[i], jit[i], av))]

(* nodeOccupancy: the keys in insertion order, and the particles (indices   *)
(* into `updated`, in list order) stored under a key.                       *)
OccupiedNodes(updated) ==
  LET RECURSIVE Go(_, _)
      Go(i, keys) ==
        IF i > Len(updated) THEN keys
        ELSE LET t == updated[i].targetNodeId
             IN Go(i + 1,
                   IF t = NoTarget \/ \E k \in 1..Len(keys) : keys[k] = t
                   THEN keys ELSE Append(keys, t))
  IN Go(1, <<>>)

Occupants(updated, nodeId) ==
  SelectIdx(updated, LAMBDA p : p.targetNodeId = nodeId)

IdsOf(updated, idxs) == [k \in 1..Len(idxs) |-> updated[idxs[k]].id]

(* The update of one colliding particle.  `updated` already holds the new   *)
(* values of the particles handled before it: the loop mutates in place.    *)
ResonanceFactor(freqDifference) ==
  LET q == TruncDiv(((FREQ_HIGH - FREQ_LOW) * FreqScale - freqDifference)
                      * (10000 \div FreqScale),
                    FREQ_HIGH - FREQ_LOW)
  IN (q * q) \div 10000

CollideOneAssigns(updated, cur, idxs) ==
  LET others == SelectSeq(idxs, LAMBDA k : updated[k].id # updated[cur].id)
      n == Len(others)
      p == updated[cur]
      avgOtherBaseFrequency ==
        TruncDiv(SumSeq([k \in 1..n |-> updated[others[k]].baseFrequency]), n)
      avgOtherAmplitude ==
        SumSeq([k \in 1..n |-> updated[others[k]].amplitude]) \div n
      freqDifference == Abs(p.baseFrequency - avgOtherBaseFrequency)
      resonanceFactor == ResonanceFactor(freqDifference)
      amplitudeFactor == (p.amplitude + avgOtherAmplitude) \div 2
      harmonicIncrease ==
        (((resonanceFactor * amplitudeFactor) \div 10000) * (6 + 2 * n)) \div 10
  IN IF n = 0 THEN updated
     ELSE [updated EXCEPT ![cur] =
             [p EXCEPT !.harmonicFactor = Min(MAX_HARMONIC, p.harmonicFactor + harmonicIncrease),
                       !.amplitude = Min(MAX_AMPLITUDE, (amplitudeFactor * 15) \div 100),
                       !.energyLevel = Min(MAX_ENERGY, p.energyLevel + ENERGY_GAIN * n)]]

CollideOneLocational(updated, cur, idxs) ==
  LET others == SelectSeq(idxs, LAMBDA k : updated[k].id # updated[cur].id)
      n == Len(others)
      p == updated[cur]
      avgOtherBaseFrequency ==
        TruncDiv(SumSeq([k \in 1..n |-> updated[others[k]].locationalFrequency]), n)
      avgOtherAmplitude ==
        SumSeq([k \in 1..n |-> updated[others[k]].amplitude]) \div n
      freqDifference == Abs(p.locationalFrequency - avgOtherBaseFrequency)
      resonanceFactor == ResonanceFactor(freqDifference)
      amplitudeFactor == (p.amplitude + avgOtherAmplitude) \div 2
      harmonicIncrease ==
        (((resonanceFactor * amplitudeFactor) \div 10000) * (6 + 2 * n)) \div 10
  IN IF n = 0 THEN updated
     ELSE [updated EXCEPT ![cur] =
             [p EXCEPT !.harmonicFactor = Min(MAX_HARMONIC, p.harmonicFactor + harmonicIncrease),
                       !.amplitude = Min(MAX_AMPLITUDE, p.amplitude + (amplitudeFactor * 15) \div 100),
                       !.energyLevel = Min(MAX_ENERGY, p.energyLevel + ENERGY_GAIN * n)]]

CollideOne(updated, cur, idxs) ==
  LET others == SelectSeq(idxs, LAMBDA k : updated[k].id # updated[cur].id)
      n == Len(others)
      p == updated[cur]
      avgOtherBaseFrequency ==
        TruncDiv(SumSeq([k \in 1..n |-> updated[others[k]].baseFrequency]), n)
      avgOtherAmplitude ==
        SumSeq([k \in 1..n |-> updated[others[k]].amplitude]) \div n
      freqDifference == Abs(p.baseFrequency - avgOtherBaseFrequency)
      resonanceFactor == ResonanceFactor(freqDifference)
      amplitudeFactor == (p.amplitude + avgOtherAmplitude) \div 2
      harmonicIncrease ==
        (((resonanceFactor * amplitudeFactor) \div 10000) * (6 + 2 * n)) \div 10
  IN IF n = 0 THEN updated
     ELSE [updated EXCEPT ![cur] =
             [p EXCEPT !.harmonicFactor = Min(MAX_HARMONIC, p.harmonicFactor + harmonicIncrease),
                       !.amplitude = Min(MAX_AMPLITUDE, p.amplitude + (amplitudeFactor * 15) \div 100),
                       !.energyLevel = Min(MAX_ENERGY, p.energyLevel + ENERGY_GAIN * n)]]

ResolveCollision(updated, idxs) ==
  LET RECURSIVE Go(_, _)
      Go(k, u) == IF k > Len(idxs) THEN u ELSE Go(k + 1, CollideOne(u, idxs[k], idxs))
  IN IF Len(idxs) > 1 THEN Go(1, updated) ELSE updated

SupernovaTriggeredAll(resolved, idxs) ==
  Len(idxs) > 1 /\ \A k \in 1..Len(idxs) : resolved[idxs[k]].energyLevel >= MAX_ENERGY

SupernovaTriggered(resolved, idxs) ==
  Len(idxs) > 1 /\ \E k \in 1..Len(idxs) : resolved[idxs[k]].energyLevel >= MAX_ENERGY

CornerTorqueNoThreshold(updated, node, idxs) ==
  LET RECURSIVE Go(_, _)
      Go(k, acc) ==
        IF k > Len(idxs) THEN acc
        ELSE Go(k + 1, VecAdd(acc, Torque(node, updated[idxs[k]].energyLevel)))
  IN IF node.isCorner THEN Go(1, ZeroVec) ELSE ZeroVec

(* The torque the occupants of one node add to the angular velocity.        *)
CornerTorque(updated, node, idxs) ==
  LET RECURSIVE Go(_, _)
      Go(k, acc) ==
        IF k > Len(idxs) THEN acc
        ELSE Go(k + 1, IF updated[idxs[k]].energyLevel > TORQUE_ENERGY
                       THEN VecAdd(acc, Torque(node, updated[idxs[k]].energyLevel))
                       ELSE acc)
  IN IF node.isCorner THEN Go(1, ZeroVec) ELSE ZeroVec

(* Step 3 for one key of nodeOccupancy.  acc carries the array `updated`,   *)
(* the angular velocity, the events and timers created so far,              *)
(* particleIdsToRemove and explosionsToProcess.                             *)
CollisionEventOf(nodeId, pIds, t) ==
  [ id |-> <<nodeId, t>>, nodeId |-> nodeId, particleIds |-> pIds, timestamp |-> t ]

SupernovaEventOf(node, t) ==
  [ id |-> <<"sn", node.id, t>>, position |-> node.position, timestamp |-> t ]

NodeOutcomeAnyOccupant(acc, found, nodeId, idxs, resolved, t) ==
  LET node == found.node
      pIds == IdsOf(acc.updated, idxs)
      av1 == VecAdd(acc.av, CornerTorque(acc.updated, node, idxs))
      boom == SupernovaTriggered(resolved, idxs)
      colEv == CollisionEventOf(nodeId, pIds, t)
      snEv == SupernovaEventOf(node, t)
  IN IF ~found.found THEN acc
     ELSE IF Len(idxs) < 1 THEN [acc EXCEPT !.av = av1]
     ELSE [ updated |-> resolved,
            av |-> av1,
            collisions |-> Append(acc.collisions, colEv),
            supernovas |-> IF boom THEN Append(acc.supernovas, snEv) ELSE acc.supernovas,
            timers |-> acc.timers
                       \o << [kind |-> "collision", due |-> t + COLLISION_LIFETIME, id |-> colEv.id] >>
                       \o (IF boom
                           THEN << [kind |-> "supernova", due |-> t + SUPERNOVA_LIFETIME, id |-> snEv.id] >>
                           ELSE <<>>),
            remove |-> IF boom THEN acc.remove \cup {pIds[k] : k \in 1..Len(pIds)} ELSE acc.remove,
            explosions |-> IF boom THEN acc.explosions + 1 ELSE acc.explosions ]

NodeOutcomeRemovesSaturated(acc, found, nodeId, idxs, resolved, t) ==
  LET node == found.node
      pIds == IdsOf(acc.updated, idxs)
      av1 == VecAdd(acc.av, CornerTorque(acc.updated, node, idxs))
      boom == SupernovaTriggered(resolved, idxs)
      colEv == CollisionEventOf(nodeId, pIds, t)
      snEv == SupernovaEventOf(node, t)
  IN IF ~found.found THEN acc
     ELSE IF Len(idxs) <= 1 THEN [acc EXCEPT !.av = av1]
     ELSE [ updated |-> resolved,
            av |-> av1,
            collisions |-> Append(acc.collisions, colEv),
            supernovas |-> IF boom THEN Append(acc.supernovas, snEv) ELSE acc.supernovas,
            timers |-> acc.timers
                       \o << [kind |-> "collision", due |-> t + COLLISION_LIFETIME, id |-> colEv.id] >>
                       \o (IF boom
                           THEN << [kind |-> "supernova", due |-> t + SUPERNOVA_LIFETIME, id |-> snEv.id] >>
                           ELSE <<>>),
            remove |-> IF boom
                       THEN acc.remove \cup {resolved[idxs[k]].id : k \in
                              {j \in 1..Len(idxs) : resolved[idxs[j]].energyLevel >= MAX_ENERGY}}
                       ELSE acc.remove,
            explosions |-> IF boom THEN acc.explosions + 1 ELSE acc.explosions ]

NodeOutcomeSupernovaOnly(acc, found, nodeId, idxs, resolved, t) ==
  LET node == found.node
      pIds == IdsOf(acc.updated, idxs)
      av1 == VecAdd(acc.av, CornerTorque(acc.updated, node, idxs))
      boom == SupernovaTriggered(resolved, idxs)
      colEv == CollisionEventOf(nodeId, pIds, t)
      snEv == SupernovaEventOf(node, t)
  IN IF ~found.found THEN acc
     ELSE IF Len(idxs) <= 1 THEN [acc EXCEPT !.av = av1]
     ELSE [ updated |-> resolved,
            av |-> av1,
            collisions |-> IF boom THEN acc.collisions ELSE Append(acc.collisions, colEv),
            supernovas |-> IF boom THEN Append(acc.supernovas, snEv) ELSE acc.supernovas,
            timers |-> acc.timers
                       \o << [kind |-> "collision", due |-> t + COLLISION_LIFETIME, id |-> colEv.id] >>
                       \o (IF boom
                           THEN << [kind |-> "supernova", due |-> t + SUPERNOVA_LIFETIME, id |-> snEv.id] >>
                           ELSE <<>>),
            remove |-> IF boom THEN acc.remove \cup {pIds[k] : k \in 1..Len(pIds)} ELSE acc.remove,
            explosions |-> IF boom THEN acc.explosions + 1 ELSE acc.explosions ]

NodeOutcome(acc, found, nodeId, idxs, resolved, t) ==
  LET node == found.node
      pIds == IdsOf(acc.updated, idxs)
      av1 == VecAdd(acc.av, CornerTorque(acc.updated, node, idxs))
      boom == SupernovaTriggered(resolved, idxs)
      colEv == CollisionEventOf(nodeId, pIds, t)
      snEv == SupernovaEventOf(node, t)
  IN IF ~found.found THEN acc
     ELSE IF Len(idxs) <= 1 THEN [acc EXCEPT !.av = av1]
     ELSE [ updated |-> resolved,
            av |-> av1,
            collisions |-> Append(acc.collisions, colEv),
            supernovas |-> IF boom THEN Append(acc.supernovas, snEv) ELSE acc.supernovas,
            timers |-> acc.timers
                       \o << [kind |-> "collision", due |-> t + COLLISION_LIFETIME, id |-> colEv.id] >>
                       \o (IF boom
                           THEN << [kind |-> "supernova", due |-> t + SUPERNOVA_LIFETIME, id |-> snEv.id] >>
                           ELSE <<>>),
            remove |-> IF boom THEN acc.remove \cup {pIds[k] : k \in 1..Len(pIds)} ELSE acc.remove,
            explosions |-> IF boom THEN acc.explosions + 1 ELSE acc.explosions ]

ProcessOccupants(acc, found, nodeId, idxs, t) ==
  NodeOutcome(acc, found, nodeId, idxs, ResolveCollision(acc.updated, idxs), t)

ProcessNodeAfterRemoval(acc, nodeId, t) ==
  IF acc.remove # {} THEN acc
  ELSE ProcessOccupants(acc, NodeById(nodeId), nodeId, Occupants(acc.updated, nodeId), t)

ProcessNode(acc, nodeId, t) ==
  ProcessOccupants(acc, NodeById(nodeId), nodeId, Occupants(acc.updated, nodeId), t)

(* nodeOccupancy.forEach over the keys *)
ProcessNodes(updated, keys, av, t) ==
  LET RECURSIVE Go(_, _)
      Go(k, acc) == IF k > Len(keys) THEN acc ELSE Go(k + 1, ProcessNode(acc, keys[k], t))
  IN Go(1, [ updated |-> updated, av |-> av, collisions |-> <<>>,
             supernovas |-> <<>>, timers |-> <<>>, remove |-> {},
             explosions |-> 0 ])

(* History carried by a deferred spawn (not program state): the particles  *)
(* the tick started with and how many its supernovae removed.               *)
SpawnOrigin(updated, done) ==
  [ ids |-> { updated[i].id : i \in 1..Len(updated) },
    before |-> Len(updated),
    removed |-> Cardinality(done.remove),
    explosions |-> done.explosions ]

StepResultKeepsBystanders(updated, done, t) ==
  [ drifted |-> updated,
    resolved |-> done.updated,
    finalParticles |-> SelectSeq(done.updated, LAMBDA p : p.energyLevel < MAX_ENERGY),
    av |-> done.av,
    collisions |-> done.collisions,
    supernovas |-> done.supernovas,
    timers |-> done.timers
               \o [i \in 1..done.explosions |->
                     [kind |-> "spawn", due |-> t + SPAWN_DELAY, id |-> <<>>,
                      origin |-> SpawnOrigin(updated, done)]],
    remove |-> done.remove,
    explosions |-> done.explosions ]

StepResultExtraSpawn(updated, done, t) ==
  [ drifted |-> updated,
    resolved |-> done.updated,
    finalParticles |-> SelectSeq(done.updated, LAMBDA p : p.id \notin done.remove),
    av |-> done.av,
    collisions |-> done.collisions,
    supernovas |-> done.supernovas,
    timers |-> done.timers
               \o [i \in 1..(done.explosions + 1) |->
                     [kind |-> "spawn", due |-> t + SPAWN_DELAY, id |-> <<>>,
                      origin |-> SpawnOrigin(updated, done)]],
    remove |-> done.remove,
    explosions |-> done.explosions ]

StepResultStale(updated, done, t) ==
  [ drifted |-> updated,
    resolved |-> done.updated,
    finalParticles |-> SelectSeq(updated, LAMBDA p : p.id \notin done.remove),
    av |-> done.av,
    collisions |-> done.collisions,
    supernovas |-> done.supernovas,
    timers |-> done.timers
               \o [i \in 1..done.explosions |->
                     [kind |-> "spawn", due |-> t + SPAWN_DELAY, id |-> <<>>,
                      origin |-> SpawnOrigin(updated, done)]],
    remove |-> done.remove,
    explosions |-> done.explosions ]

StepResultNoReplacement(updated, done, t) ==
  [ drifted |-> updated,
    resolved |-> done.updated,
    finalParticles |-> SelectSeq(done.updated, LAMBDA p : p.id \notin done.remove),
    av |-> done.av,
    collisions |-> done.collisions,
    supernovas |-> done.supernovas,
    timers |-> done.timers,
    remove |-> done.remove,
    explosions |-> done.explosions ]

(* Steps 4 and 5: the filter, and one deferred spawn per explosion.         *)
StepResult(updated, done, t) ==
  [ drifted |-> updated,
    resolved |-> done.updated,
    finalParticles |-> SelectSeq(done.updated, LAMBDA p : p.id \notin done.remove),
    av |-> done.av,
    collisions |-> done.collisions,
    supernovas |-> done.supernovas,
    timers |-> done.timers
               \o [i \in 1..done.explosions |->
                     [kind |-> "spawn", due |-> t + SPAWN_DELAY, id |-> <<>>,
                      origin |-> SpawnOrigin(updated, done)]],
    remove |-> done.remove,
    explosions |-> done.explosions ]

FieldStepOf(updated, av, t) ==
  StepResult(updated, ProcessNodes(updated, OccupiedNodes(updated), av, t), t)

(* The callback of particles.update: everything up to the returned list.    *)
FieldStep(parts, jit, av, t) == FieldStepOf(DriftAndAssign(parts, jit, av), av, t)

-----------------------------------------------------------------------------
(* The environment: what Math.random() and the user may supply.  The sets   *)
(* are small samples of the real ranges.                                    *)

MaxTime == 9           \* horizon of Spec, in units of 50 ms
MaxEnvEvents == 3      \* seed-button calls, field clicks and ticks with a
                       \* non-zero jitter, together

(* Indices into nonCornerNodes that Math.random() may draw, and the values  *)
(* of (Math.random() - 0.5) * 10 and (Math.random() - 0.5) * 4 (1/10 Hz).  *)
NodePicks == {5}
SeedJitters == {0, 20}
DriftJitters == {-20, 10}
FallbackDraws == {0}

(* Positions a click may supply: the point whose frequency is FREQ_LOW and  *)
(* a point below the lattice.                                               *)
ClickPositions == { <<0, -24, 0>>, <<0, -30, 0>> }

(* One jitter per particle: all zero, or one particle off zero.             *)
JitterVectors(n, varied) ==
  { [i \in 1..n |-> 0] } \cup
  (IF varied
   THEN { [i \in 1..n |-> IF i = k THEN d ELSE 0] : k \in 1..n, d \in DriftJitters }
   ELSE {})

-----------------------------------------------------------------------------
(* Timers.  A pending setTimeout is a record [kind, due, id]; the           *)
(* setInterval of the constructor is nextTick.  A callback runs when its    *)
(* time has come; time advances only when no callback is due.               *)

RemoveAt(s, i) == SubSeq(s, 1, i - 1) \o SubSeq(s, i + 1, Len(s))

EnvEvents == env.seeds + env.clicks + env.jitters

NothingDue == nextTick > now /\ \A i \in 1..Len(timers) : timers[i].due > now

Constructed(jitters) ==
  /\ \E pick \in NodePicks, j \in jitters, fb \in FallbackDraws :
       particles = spawnParticle(<<>>, RandomFrequency(pick, j, fb), 1)
  /\ collisionEvents = <<>>
  /\ supernovaEvents = <<>>
  /\ gridAngularVelocity = ZeroVec
  /\ gridRotation = ZeroVec
  /\ timers = <<>>
  /\ now = 0
  /\ nextTick = TICK_INTERVAL
  /\ nextId = 2
  /\ env = [seeds |-> 0, clicks |-> 0, jitters |-> 0]
  /\ last = [op |-> "init"]

(* spawnParticle() from the seed button *)
SeedFrom(picks, jitters) ==
  \E pick \in picks, j \in jitters, fb \in FallbackDraws :
    \E freq \in { RandomFrequency(pick, j, fb) } :
    \E after \in { spawnParticle(particles, freq, nextId) } :
       /\ particles' = after
       /\ nextId' = IF after = particles THEN nextId ELSE nextId + 1
       /\ env' = [env EXCEPT !.seeds = @ + 1]
       /\ last' = [op |-> "seed", before |-> particles, freq |-> freq]
       /\ UNCHANGED <<collisionEvents, supernovaEvents, gridAngularVelocity,
                      gridRotation, timers, now, nextTick>>

Seed(jitters) == SeedFrom(NodePicks, jitters)

(* spawnParticle(pos) from SceneComponent.onMapClick *)
ClickAt(positions) ==
  \E pos \in positions :
    \E freq \in { calculateNodeFrequency(pos) * FreqScale } :
    \E after \in { spawnParticle(particles, freq, nextId) } :
       /\ particles' = after
       /\ nextId' = IF after = particles THEN nextId ELSE nextId + 1
       /\ env' = [env EXCEPT !.clicks = @ + 1]
       /\ last' = [op |-> "click", before |-> particles, freq |-> freq, pos |-> pos]
       /\ UNCHANGED <<collisionEvents, supernovaEvents, gridAngularVelocity,
                      gridRotation, timers, now, nextTick>>

Click == ClickAt(ClickPositions)

(* setTimeout(() => this.spawnParticle(), 50) *)
DeferredSpawn(jitters) ==
  \E i \in 1..Len(timers) :
    /\ timers[i].kind = "spawn"
    /\ timers[i].due <= now
    /\ \E pick \in NodePicks, j \in jitters, fb \in FallbackDraws :
         \E freq \in { RandomFrequency(pick, j, fb) } :
         \E after \in { spawnParticle(particles, freq, nextId) } :
            /\ particles' = after
            /\ nextId' = IF after = particles THEN nextId ELSE nextId + 1
            /\ timers' = RemoveAt(timers, i)
            /\ last' = [op |-> "deferred", before |-> particles, freq |-> freq,
                        origin |-> timers[i].origin]
            /\ UNCHANGED <<collisionEvents, supernovaEvents, gridAngularVelocity,
                           gridRotation, now, nextTick, env>>

(* The expiry callbacks of the event channels *)
ExpireCollisionAnyTime ==
  \E i \in 1..Len(timers) :
    /\ timers[i].kind = "collision"
    /\ collisionEvents' = SelectSeq(collisionEvents, LAMBDA e : e.id # timers[i].id)
    /\ timers' = RemoveAt(timers, i)
    /\ last' = [op |-> "expire", kind |-> "collision", id |-> timers[i].id]
    /\ UNCHANGED <<particles, supernovaEvents, gridAngularVelocity, gridRotation,
                   now, nextTick, nextId, env>>

ExpireCollision ==
  \E i \in 1..Len(timers) :
    /\ timers[i].kind = "collision"
    /\ timers[i].due <= now
    /\ collisionEvents' = SelectSeq(collisionEvents, LAMBDA e : e.id # timers[i].id)
    /\ timers' = RemoveAt(timers, i)
    /\ last' = [op |-> "expire", kind |-> "collision", id |-> timers[i].id]
    /\ UNCHANGED <<particles, supernovaEvents, gridAngularVelocity, gridRotation,
                   now, nextTick, nextId, env>>

ExpireSupernova ==
  \E i \in 1..Len(timers) :
    /\ timers[i].kind = "supernova"
    /\ timers[i].due <= now
    /\ supernovaEvents' = SelectSeq(supernovaEvents, LAMBDA e : e.id # timers[i].id)
    /\ timers' = RemoveAt(timers, i)
    /\ last' = [op |-> "expire", kind |-> "supernova", id |-> timers[i].id]
    /\ UNCHANGED <<particles, collisionEvents, gridAngularVelocity, gridRotation,
                   now, nextTick, nextId, env>>

(* processFieldDynamics, the whole callback of setInterval *)
(* jitters: the draws of a stabilization spawn; draws: the vectors of drift  *)
(* draws, one entry per particle.                                           *)
TickWith(jitters, draws) ==
  /\ nextTick <= now
  /\ \E jit \in draws :
     \E av0 \in { Damped(gridAngularVelocity) } :
     \E r \in { FieldStep(particles, jit, av0, now) } :
     \E stab \in { globalAmplitudeAtLeast(r.finalParticles, 7000)
                   /\ Len(r.finalParticles) < 3 } :
     \E pick \in (IF stab THEN NodePicks ELSE {5}),
        j \in (IF stab THEN jitters ELSE {0}), fb \in FallbackDraws :
     \E after \in { IF stab
                    THEN spawnParticle(r.finalParticles, RandomFrequency(pick, j, fb), nextId)
                    ELSE r.finalParticles } :
       /\ particles' = after
       /\ nextId' = IF after = r.finalParticles THEN nextId ELSE nextId + 1
       /\ gridAngularVelocity' = r.av
       /\ gridRotation' = IF NonNegligible(av0) THEN VecAdd(gridRotation, av0)
                          ELSE gridRotation
       /\ collisionEvents' = collisionEvents \o r.collisions
       /\ supernovaEvents' = supernovaEvents \o r.supernovas
       /\ timers' = timers \o r.timers
       /\ nextTick' = nextTick + TICK_INTERVAL
       /\ env' = [env EXCEPT !.jitters = IF \E i \in 1..Len(jit) : jit[i] # 0
                                         THEN @ + 1 ELSE @]
       /\ last' = [op |-> "tick", before |-> particles, jit |-> jit, av |-> av0,
                   avBefore |-> gridAngularVelocity, step |-> r, stabilized |-> stab]
       /\ UNCHANGED now

Tick(jitters, varied) == TickWith(jitters, JitterVectors(Len(particles), varied))

Advance ==
  /\ NothingDue
  /\ now' = now + 1
  /\ last' = [op |-> "advance"]
  /\ UNCHANGED <<particles, collisionEvents, supernovaEvents, gridAngularVelocity,
                 gridRotation, timers, nextTick, nextId, env>>

Init == Constructed(SeedJitters)

Next ==
  \/ Tick(SeedJitters, EnvEvents < MaxEnvEvents)
  \/ (EnvEvents < MaxEnvEvents /\ Seed(SeedJitters))
  \/ (EnvEvents < MaxEnvEvents /\ Click)
  \/ DeferredSpawn(SeedJitters)
  \/ (now < MaxTime /\ Advance)

Spec == Init /\ [][Next]_vars

(* The population-cap environment: a burst of seeds at one frequency, so    *)
(* that the store fills, explodes and refills within three time units.      *)
MaxBurstTime == 3
MaxBurstSeeds == 14
MaxBurstClicks == 1
BurstJitters == {0}

InitCap == Constructed(BurstJitters)

NextCap ==
  \/ Tick(BurstJitters, FALSE)
  \/ (env.seeds < MaxBurstSeeds /\ Seed(BurstJitters))
  \/ (env.clicks < MaxBurstClicks /\ Click)
  \/ DeferredSpawn(BurstJitters)
  \/ (now < MaxBurstTime /\ Advance)

SpecCap == InitCap /\ [][NextCap]_vars

(* The rotating-field environment: clicks on two corner nodes whose        *)
(* directions oppose each other, seeds at one node, no drift jitter, so     *)
(* that corner torque builds up and supernovae happen at several nodes.     *)
MaxFieldTime == 6
MaxFieldEvents == 5    \* clicks and seed-button calls, together
CornerPositions == { <<-12, 12, 12>>, <<-12, -12, -12>> }

InitField == Constructed(BurstJitters)

NextField ==
  \/ Tick(BurstJitters, FALSE)
  \/ (EnvEvents < MaxFieldEvents /\ Seed(BurstJitters))
  \/ (EnvEvents < MaxFieldEvents /\ ClickAt(CornerPositions))
  \/ DeferredSpawn(BurstJitters)
  \/ (now < MaxFieldTime /\ Advance)

SpecField == InitField /\ [][NextField]_vars

(* The long-horizon environment: a few seeds at one node and no drift      *)
(* jitter, followed until the events of the first ticks have expired.       *)
MaxExpiryTime == 47
MaxExpirySeeds == 2

InitExpiry == Constructed(BurstJitters)

NextExpiry ==
  \/ Tick(BurstJitters, FALSE)
  \/ (env.seeds < MaxExpirySeeds /\ Seed(BurstJitters))
  \/ DeferredSpawn(BurstJitters)
  \/ ExpireCollision
  \/ ExpireSupernova
  \/ (now < MaxExpiryTime /\ Advance)

SpecExpiry == InitExpiry /\ [][NextExpiry]_vars

(* The stabilization environment: clicks on the nodes of 206 and 208 Hz,   *)
(* and one tick in which two particles drift by 1.5 Hz in opposite          *)
(* directions and change places, so that two pairs collide four times and   *)
(* the store then holds two loud particles.                                 *)
MaxStabTime == 8
MaxStabClicks == 4
MaxStabSwaps == 1
StabPositions == { <<-12, -12, 8>>, <<-12, -12, 12>> }
SwapDraws == {15}

SwapVectors(n, allowed) ==
  { [i \in 1..n |-> 0] } \cup
  (IF allowed
   THEN { [i \in 1..n |-> IF i = up THEN d ELSE IF i = down THEN -d ELSE 0] :
            up \in 1..n, down \in 1..n, d \in SwapDraws }
   ELSE {})

InitStab == Constructed(BurstJitters)

NextStab ==
  \/ TickWith(BurstJitters, SwapVectors(Len(particles), env.jitters < MaxStabSwaps))
  \/ (env.clicks < MaxStabClicks /\ ClickAt(StabPositions))
  \/ DeferredSpawn(BurstJitters)
  \/ (now < MaxStabTime /\ Advance)

SpecStab == InitStab /\ [][NextStab]_vars

(* The spawn environment: seeds drawn from the first, an inner and the     *)
(* last non-corner node with the extreme and the middle values of           *)
(* (Math.random() - 0.5) * 10, and clicks on and off the lattice.           *)
MaxSpawnTime == 2
MaxSpawnSeeds == 1
MaxSpawnClicks == 1
SpawnPicks == {1, 5, Len(nonCornerNodes)}
SpawnJitters == {-50, 0, 49}
SpawnPositions == ClickPositions \cup { <<12, 12, 12>>, <<3, -7, 10>> }

InitSpawn == Constructed(BurstJitters)

NextSpawn ==
  \/ Tick(BurstJitters, FALSE)
  \/ (env.seeds < MaxSpawnSeeds /\ SeedFrom(SpawnPicks, SpawnJitters))
  \/ (env.clicks < MaxSpawnClicks /\ ClickAt(SpawnPositions))
  \/ (now < MaxSpawnTime /\ Advance)

SpecSpawn == InitSpawn /\ [][NextSpawn]_vars

(* Grid generation as an operation of its own: initializeNodes run for a    *)
(* configuration (GRID_SIZE, SPACING), the grid it sets and the grid and    *)
(* configuration of the run before it kept for comparison.                  *)
MaxGridSize == 7
MaxSpacing == 4

GenerateGrid ==
  \E size \in 1..MaxGridSize, spacing \in 1..MaxSpacing :
    /\ last' = [ op |-> "grid",
                 config |-> <<size, spacing>>,
                 nodes |-> GridOf(size, spacing) \o <<>>,
                 prevConfig |-> IF last.op = "grid" THEN last.config
                                ELSE <<GRID_SIZE, SPACING>>,
                 prevNodes |-> IF last.op = "grid" THEN last.nodes ELSE nodes ]
    /\ UNCHANGED <<particles, collisionEvents, supernovaEvents, gridAngularVelocity,
                   gridRotation, timers, now, nextTick, nextId, env>>

InitGrid == Constructed(BurstJitters)

NextGrid == GenerateGrid

SpecGrid == InitGrid /\ [][NextGrid]_vars

(* The decay environment: seeds at the node of 206 Hz before the first      *)
(* tick, and in the first ticks a draw that moves one particle 1.5 Hz down  *)
(* to the node of 204 Hz; after that nothing disturbs the store, and the    *)
(* run is followed long enough for every attribute to reach its floor.      *)
(* The event loop runs every callback that is due and time passes: weak     *)
(* fairness of the passage of time, of each timeout callback and of the     *)
(* interval callback.  Every tick, and no other step, moves nextTick on by  *)
(* one interval, so the fairness of the tick is stated over nextTick.       *)
MaxDecayTime == 420
MaxDecaySeeds == 1
MaxDecayDrifts == 1
DecaySeedWindow == 2
DecayDriftWindow == 4

DecayDraws(n, allowed) ==
  { [i \in 1..n |-> 0] } \cup
  (IF allowed THEN { [i \in 1..n |-> IF i = k THEN -15 ELSE 0] : k \in 1..n } ELSE {})

InitDecay == Constructed(BurstJitters)

NextDecay ==
  \/ TickWith(BurstJitters,
              DecayDraws(Len(particles),
                         env.jitters < MaxDecayDrifts /\ now <= DecayDriftWindow))
  \/ (env.seeds < MaxDecaySeeds /\ now < DecaySeedWindow /\ Seed(BurstJitters))
  \/ DeferredSpawn(BurstJitters)
  \/ ExpireCollision
  \/ ExpireSupernova
  \/ (now < MaxDecayTime /\ Advance)

IntervalFires == nextTick <= now /\ nextTick' = nextTick + TICK_INTERVAL

FairDecay ==
  /\ WF_vars(now < MaxDecayTime /\ Advance)
  /\ WF_vars(ExpireCollision)
  /\ WF_vars(ExpireSupernova)
  /\ WF_vars(DeferredSpawn(BurstJitters))
  /\ WF_nextTick(IntervalFires)

SpecDecay == InitDecay /\ [][NextDecay]_vars /\ FairDecay

(* The torque environment: clicks at the corner of 448 Hz and five ticks.   *)
(* Two particles that collide there tick after tick add a growing torque,   *)
(* and by the fifth tick the damped angular velocity is no longer           *)
(* negligible while the particle of the constructor sits at the node of     *)
(* 206 Hz.                                                                  *)
MaxTorqueTime == 10
MaxTorqueClicks == 3
TorquePositions == { <<-12, 12, 12>> }

InitTorque == Constructed(BurstJitters)

NextTorque ==
  \/ Tick(BurstJitters, FALSE)
  \/ (env.clicks < MaxTorqueClicks /\ ClickAt(TorquePositions))
  \/ DeferredSpawn(BurstJitters)
  \/ (now < MaxTorqueTime /\ Advance)

SpecTorque == InitTorque /\ [][NextTorque]_vars

(* The late-timer environment.  setInterval and setTimeout promise no      *)
(* exact time: a callback runs some time after it is due (a busy event      *)
(* loop, a throttled tab).  Stall lets time pass with callbacks due, so a   *)
(* tick may run late and the next tick may come before the replacement      *)
(* spawn the late one scheduled.  Seeds at one node bring the supernova     *)
(* that empties the store.                                                  *)
MaxLateTime == 7
MaxLateSeeds == 3

Stall ==
  /\ ~NothingDue
  /\ now' = now + 1
  /\ last' = [op |-> "stall"]
  /\ UNCHANGED <<particles, collisionEvents, supernovaEvents, gridAngularVelocity,
                 gridRotation, timers, nextTick, nextId, env>>

InitLate == Constructed(BurstJitters)

NextLate ==
  \/ Tick(BurstJitters, FALSE)
  \/ (env.seeds < MaxLateSeeds /\ Seed(BurstJitters))
  \/ DeferredSpawn(BurstJitters)
  \/ (now < MaxLateTime /\ Advance)
  \/ (now < MaxLateTime /\ Stall)

SpecLate == InitLate /\ [][NextLate]_vars

-----------------------------------------------------------------------------
(* Properties                                                               *)

Ids(parts) == { parts[i].id : i \in 1..Len(parts) }
SpawnOps == {"seed", "click", "deferred"}
TickDone == last.op = "tick"

(* After a tick: the array `updated` before and after collision resolution, *)
(* the occupants of a node after the drift step, the events the tick        *)
(* published (their timestamp is the time of the tick).                     *)
Drifted == last.step.drifted
Resolved == last.step.resolved
OccupantsAfterDrift(nodeId) ==
  { i \in 1..Len(Drifted) : Drifted[i].targetNodeId = nodeId }
OccupiedAfterDrift == { Drifted[i].targetNodeId : i \in 1..Len(Drifted) }
PublishedCollisions ==
  { k \in 1..Len(collisionEvents) : collisionEvents[k].timestamp = now }
PublishedSupernovas ==
  { k \in 1..Len(supernovaEvents) : supernovaEvents[k].timestamp = now }
SeqToSet(q) == { q[k] : k \in 1..Len(q) }

(* The trigger of claim C8, from the energies after decay, in the step      *)
(* record of a tick and in the tick just done.                              *)
TriggeringIn(step, nodeId) ==
  LET occ == { i \in 1..Len(step.drifted) : step.drifted[i].targetNodeId = nodeId }
  IN /\ Cardinality(occ) >= 2
     /\ \E i \in occ :
          step.drifted[i].energyLevel + ENERGY_GAIN * (Cardinality(occ) - 1) >= MAX_ENERGY

Triggering(nodeId) == TriggeringIn(last.step, nodeId)

(* C1: the particle store never holds more than MAX_PARTICLES particles.    *)
C1_PopulationCap == Len(particles) <= MAX_PARTICLES

(* C1 witness: a deferred replacement spawn found the store full.           *)
C1_Witness ==
  /\ last.op = "deferred"
  /\ Len(last.before) = MAX_PARTICLES
  /\ Len(particles) = MAX_PARTICLES

(* C2: a spawnParticle call on a full store changes nothing: not the        *)
(* particles, the rotational state, the event channels or the pending       *)
(* timers (a deferred spawn consumes only its own timer).                   *)
C2_FullStoreSpawnIsNoOp ==
  [][ (last'.op \in SpawnOps /\ Len(particles) >= MAX_PARTICLES) =>
        /\ particles' = particles
        /\ gridAngularVelocity' = gridAngularVelocity
        /\ gridRotation' = gridRotation
        /\ collisionEvents' = collisionEvents
        /\ supernovaEvents' = supernovaEvents
        /\ nextTick' = nextTick
        /\ IF last'.op = "deferred"
           THEN \E i \in 1..Len(timers) :
                  timers[i].kind = "spawn" /\ timers' = RemoveAt(timers, i)
           ELSE timers' = timers ]_vars

(* C2 witness: a click on a full store was rejected.                        *)
C2_Witness ==
  /\ last.op = "click"
  /\ Len(last.before) = MAX_PARTICLES
  /\ particles = last.before

(* C3: amplitude, harmonicFactor and energyLevel of every particle in the   *)
(* store are within [0.4, 1.0], [1.0, 4.0] and [0.1, 1.0].                  *)
C3_AttributeBounds ==
  \A i \in 1..Len(particles) :
    /\ particles[i].amplitude >= DEFAULT_AMPLITUDE
    /\ particles[i].amplitude <= MAX_AMPLITUDE
    /\ particles[i].harmonicFactor >= MIN_HARMONIC
    /\ particles[i].harmonicFactor <= MAX_HARMONIC
    /\ particles[i].energyLevel >= MIN_ENERGY
    /\ particles[i].energyLevel <= MAX_ENERGY

(* C3 witness: after a tick the store holds a particle raised by collisions *)
(* and a particle whose decay was stopped at the floors.                    *)
C3_Witness ==
  /\ TickDone
  /\ \E i \in 1..Len(particles) :
       particles[i].energyLevel > 4 * ENERGY_GAIN /\ particles[i].amplitude > DEFAULT_AMPLITUDE
  /\ \E i \in 1..Len(particles), k \in 1..Len(last.before) :
       /\ particles[i].id = last.before[k].id
       /\ last.before[k].amplitude = DEFAULT_AMPLITUDE
       /\ particles[i].amplitude = DEFAULT_AMPLITUDE
       /\ particles[i].energyLevel = MIN_ENERGY

(* C4 (as claimed): every particle's locationalFrequency lies in the band   *)
(* [100, 999], also right after spawnParticle(pos).                         *)
C4_FrequencyInBand ==
  \A i \in 1..Len(particles) :
    /\ particles[i].locationalFrequency >= FREQ_LOW * FreqScale
    /\ particles[i].locationalFrequency <= FREQ_HIGH * FreqScale

(* C5: every particle's targetNodeId is the id of a node nearest in         *)
(* frequency to its locationalFrequency, the first such node in grid order. *)
C5_TargetIsFirstNearest ==
  \A i \in 1..Len(particles) :
    \E n \in 1..Len(nodes) :
      /\ particles[i].targetNodeId = nodes[n].id
      /\ \A m \in 1..Len(nodes) :
           /\ NodeDist(nodes[n], particles[i].locationalFrequency)
                <= NodeDist(nodes[m], particles[i].locationalFrequency)
           /\ m < n => NodeDist(nodes[n], particles[i].locationalFrequency)
                         < NodeDist(nodes[m], particles[i].locationalFrequency)

(* C5 witness: a particle exactly between two node frequencies, targeting   *)
(* the node that comes first.                                               *)
C5_Witness ==
  \E i \in 1..Len(particles) :
    \E n \in 1..Len(nodes), m \in 1..Len(nodes) :
      /\ particles[i].targetNodeId = nodes[n].id
      /\ n < m
      /\ nodes[n].frequency # nodes[m].frequency
      /\ NodeDist(nodes[n], particles[i].locationalFrequency)
           = NodeDist(nodes[m], particles[i].locationalFrequency)

(* C6: in a tick, every node with two or more occupants after the drift    *)
(* step gets exactly one CollisionEvent, naming exactly its occupants, and  *)
(* no other CollisionEvent is published.                                    *)
C6_OneCollisionEventPerCollision ==
  TickDone =>
    /\ \A t \in OccupiedAfterDrift :
         LET occ == OccupantsAfterDrift(t)
             evs == { k \in PublishedCollisions : collisionEvents[k].nodeId = t }
         IN IF Cardinality(occ) >= 2
            THEN /\ Cardinality(evs) = 1
                 /\ \A k \in evs :
                      /\ SeqToSet(collisionEvents[k].particleIds) = { Drifted[i].id : i \in occ }
                      /\ Len(collisionEvents[k].particleIds) = Cardinality(occ)
            ELSE evs = {}
    /\ \A k \in PublishedCollisions : collisionEvents[k].nodeId \in OccupiedAfterDrift

(* C6 witness: a tick with a collision at one node and a lone particle at   *)
(* another.                                                                 *)
C6_Witness ==
  /\ TickDone
  /\ \E t \in OccupiedAfterDrift : Cardinality(OccupantsAfterDrift(t)) >= 2
  /\ \E t \in OccupiedAfterDrift : Cardinality(OccupantsAfterDrift(t)) = 1
  /\ PublishedCollisions # {}

(* C7: collision resolution never lowers a participant's harmonicFactor,    *)
(* amplitude or energyLevel below the value it had before the resolution.   *)
C7_CollisionNeverLowers ==
  TickDone =>
    \A t \in OccupiedAfterDrift :
      Cardinality(OccupantsAfterDrift(t)) >= 2 =>
        \A i \in OccupantsAfterDrift(t) :
          /\ Resolved[i].harmonicFactor >= Drifted[i].harmonicFactor
          /\ Resolved[i].amplitude >= Drifted[i].amplitude
          /\ Resolved[i].energyLevel >= Drifted[i].energyLevel

(* C7 witness: a collision of three that raised all three attributes of a   *)
(* participant.                                                             *)
C7_Witness ==
  /\ TickDone
  /\ \E t \in OccupiedAfterDrift :
       /\ Cardinality(OccupantsAfterDrift(t)) = 3
       /\ \E i \in OccupantsAfterDrift(t) :
            /\ Resolved[i].harmonicFactor > Drifted[i].harmonicFactor
            /\ Resolved[i].amplitude > Drifted[i].amplitude
            /\ Resolved[i].energyLevel > Drifted[i].energyLevel

(* C8: a collision of n occupants triggers a supernova exactly when some    *)
(* occupant's energyLevel after decay plus 0.2 * (n - 1) is at least 1.0;   *)
(* each triggering node gets exactly one SupernovaEvent, at its position,   *)
(* and no other SupernovaEvent is published.                                *)
C8_SupernovaTrigger ==
  TickDone =>
    /\ \A t \in OccupiedAfterDrift :
         Cardinality({ k \in PublishedSupernovas :
                         supernovaEvents[k].position = NodeById(t).node.position })
           = IF Triggering(t) THEN 1 ELSE 0
    /\ Cardinality(PublishedSupernovas)
         = Cardinality({ t \in OccupiedAfterDrift : Triggering(t) })

(* C8 witness: a supernova published for a node one of whose occupants     *)
(* stayed below 1.0.                                                        *)
C8_Witness ==
  /\ TickDone
  /\ PublishedSupernovas # {}
  /\ \E t \in OccupiedAfterDrift :
       /\ Triggering(t)
       /\ \E i \in OccupantsAfterDrift(t) : Resolved[i].energyLevel < MAX_ENERGY

(* C9: a particle leaves the store in a step exactly when the step is a     *)
(* tick in which it occupies a supernova-triggering node.                   *)
OnTriggeringNode(step, id) ==
  \E i \in 1..Len(step.drifted) :
    step.drifted[i].id = id /\ TriggeringIn(step, step.drifted[i].targetNodeId)

C9_RemovedIffSupernova ==
  [][ \A k \in 1..Len(particles) :
        (particles[k].id \notin Ids(particles'))
          <=> (last'.op = "tick" /\ OnTriggeringNode(last'.step, particles[k].id)) ]_vars

(* C9 witness: a tick removed a particle whose own energyLevel stayed below *)
(* 1.0.                                                                     *)
C9_Witness ==
  /\ TickDone
  /\ \E i \in 1..Len(Resolved) :
       /\ Resolved[i].energyLevel < MAX_ENERGY
       /\ Resolved[i].id \notin Ids(particles)

(* C10 (as claimed): after a supernova and the replacement spawn it         *)
(* scheduled, with no other spawn in between, the population is what it was *)
(* before the supernova.                                                    *)
ReplacementDone ==
  /\ last.op = "deferred"
  /\ last.origin.explosions = 1
  /\ Ids(last.before) \subseteq last.origin.ids

C10_PopulationRestored ==
  ReplacementDone => Len(particles) = last.origin.before

(* C10 (amended): after a supernova that removed m occupants (m >= 2) and   *)
(* its replacement spawn, with no other spawn in between, the population is *)
(* the one before the supernova less m - 1.                                 *)
C10_PopulationAfterReplacement ==
  ReplacementDone =>
    /\ last.origin.removed >= 2
    /\ Len(particles) = last.origin.before - last.origin.removed + 1

(* C10 witness: the replacement spawn of a supernova of three has run.      *)
C10_Witness ==
  /\ ReplacementDone
  /\ last.origin.removed = 3
  /\ Len(particles) = 1

(* C11: a tick with k supernova-triggering nodes schedules exactly k         *)
(* deferred spawns, each due only after the tick; no other step schedules   *)
(* one; and the list returned by the tick's store update holds only         *)
(* particles that were in the store before the tick.                        *)
SpawnTimers(ts) == { i \in 1..Len(ts) : ts[i].kind = "spawn" }

TriggeringNodes(step) ==
  { t \in { step.drifted[i].targetNodeId : i \in 1..Len(step.drifted) } :
      TriggeringIn(step, t) }

C11_OneDeferredSpawnPerSupernova ==
  [][ IF last'.op = "tick"
      THEN /\ Cardinality(SpawnTimers(timers'))
                = Cardinality(SpawnTimers(timers)) + Cardinality(TriggeringNodes(last'.step))
           /\ SubSeq(timers', 1, Len(timers)) = timers
           /\ \A i \in SpawnTimers(timers') : i > Len(timers) => timers'[i].due > now'
           /\ Ids(last'.step.finalParticles) \subseteq Ids(particles)
      ELSE Cardinality(SpawnTimers(timers')) <= Cardinality(SpawnTimers(timers)) ]_vars

(* C11 witness: a tick with two supernova-triggering nodes has left two     *)
(* deferred spawns pending and no replacement in the store.                 *)
C11_Witness ==
  /\ TickDone
  /\ Cardinality(TriggeringNodes(last.step)) = 2
  /\ Cardinality(SpawnTimers(timers)) = 2
  /\ Ids(particles) \subseteq Ids(last.before)

(* C12: a CollisionEvent stays in its channel until 1.5 s after it was      *)
(* published and is gone once that time has passed; a SupernovaEvent        *)
(* likewise with 2.0 s.  No event is removed before its lifetime elapses,   *)
(* and time does not pass the end of a lifetime with the event present.     *)
Gone(q, q2) == { k \in 1..Len(q) : \A j \in 1..Len(q2) : q2[j] # q[k] }

C12_EventLifetime ==
  /\ [](/\ \A k \in 1..Len(collisionEvents) :
             now <= collisionEvents[k].timestamp + COLLISION_LIFETIME
        /\ \A k \in 1..Len(supernovaEvents) :
             now <= supernovaEvents[k].timestamp + SUPERNOVA_LIFETIME)
  /\ [][ /\ \A k \in Gone(collisionEvents, collisionEvents') :
             now >= collisionEvents[k].timestamp + COLLISION_LIFETIME
         /\ \A k \in Gone(supernovaEvents, supernovaEvents') :
             now >= supernovaEvents[k].timestamp + SUPERNOVA_LIFETIME ]_vars

(* C12 witness: the SupernovaEvent published 2.0 s ago has just been        *)
(* removed, after the CollisionEvents published before it.                  *)
C12_Witness ==
  /\ last.op = "expire"
  /\ last.kind = "supernova"
  /\ now = last.id[3] + SUPERNOVA_LIFETIME
  /\ supernovaEvents = <<>>
  /\ collisionEvents = <<>>

(* The torque each particle of a tick contributes: its energyLevel after    *)
(* the tick's decay, along the direction of its node, when the node is a    *)
(* corner and the energyLevel is above 0.2; nothing otherwise.              *)
Dot(a, b) == a[1] * b[1] + a[2] * b[2] + a[3] * b[3]
VecSub(a, b) == << a[1] - b[1], a[2] - b[2], a[3] - b[3] >>

TorqueOfParticle(p) ==
  LET f == NodeById(p.targetNodeId)
  IN IF f.found /\ f.node.isCorner /\ p.energyLevel > TORQUE_ENERGY
     THEN Torque(f.node, p.energyLevel)
     ELSE ZeroVec

RECURSIVE SumTorque(_)
SumTorque(q) ==
  IF q = <<>> THEN ZeroVec ELSE VecAdd(TorqueOfParticle(Head(q)), SumTorque(Tail(q)))

AngularVelocityLaw ==
  gridAngularVelocity = VecAdd(Damped(last.avBefore), SumTorque(Drifted))

(* C13 (as claimed): after a tick the angular velocity is 0.97 times the    *)
(* previous one plus the torque of every particle on a corner node with     *)
(* energyLevel above 0.2, and the contribution of such a particle with      *)
(* energyLevel about 0.5 makes the magnitude strictly larger than it would  *)
(* be with that particle on a non-corner node.                              *)
AboutHalf(e) == e >= 450 /\ e <= 550

MeanAmplitudeAtLeast07(q) ==
  10 * SumSeq([i \in 1..Len(q) |-> q[i].amplitude]) >= 7 * MAX_AMPLITUDE * Len(q)

C14_StabilizationSpawn ==
  TickDone =>
    LET fin == last.step.finalParticles
    IN IF Len(fin) >= 1 /\ Len(fin) < 3 /\ MeanAmplitudeAtLeast07(fin)
       THEN /\ Len(particles) = Len(fin) + 1
            /\ SubSeq(particles, 1, Len(fin)) = fin
            /\ particles[Len(particles)].id \notin Ids(last.before)
       ELSE particles = fin

(* C14 witness: a tick whose update left two particles of mean amplitude    *)
(* 0.7 or more has added a third.                                           *)
C14_Witness ==
  /\ TickDone
  /\ Len(last.step.finalParticles) = 2
  /\ MeanAmplitudeAtLeast07(last.step.finalParticles)
  /\ Len(particles) = 3

(* C15: a spawnParticle call on a store below the cap appends exactly one   *)
(* particle, with amplitude 0.4, harmonicFactor 1.0, energyLevel 0.1,       *)
(* baseFrequency equal to locationalFrequency, and its targetNodeId already *)
(* the first nearest node of that frequency.                                *)
FirstNearest(freq, nodeId) ==
  \E n \in 1..Len(nodes) :
    /\ nodes[n].id = nodeId
    /\ \A m \in 1..Len(nodes) :
         /\ NodeDist(nodes[n], freq) <= NodeDist(nodes[m], freq)
         /\ m < n => NodeDist(nodes[n], freq) < NodeDist(nodes[m], freq)

FreshlySpawned(p) ==
  /\ p.amplitude = DEFAULT_AMPLITUDE
  /\ p.harmonicFactor = MIN_HARMONIC
  /\ p.energyLevel = MIN_ENERGY
  /\ p.baseFrequency = p.locationalFrequency
  /\ FirstNearest(p.locationalFrequency, p.targetNodeId)

C15_SpawnAppendsFreshParticle ==
  [][ (last'.op \in SpawnOps /\ Len(particles) < MAX_PARTICLES) =>
        /\ Len(particles') = Len(particles) + 1
        /\ SubSeq(particles', 1, Len(particles)) = particles
        /\ particles'[Len(particles')].id \notin Ids(particles)
        /\ particles'[Len(particles')].locationalFrequency = last'.freq
        /\ FreshlySpawned(particles'[Len(particles')]) ]_vars

(* C15 witness: a replacement spawn has appended a fresh particle to a      *)
(* store holding a particle raised by collisions.                           *)
C15_Witness ==
  /\ last.op = "deferred"
  /\ Len(particles) = Len(last.before) + 1
  /\ Len(last.before) >= 1
  /\ last.before[1].amplitude > DEFAULT_AMPLITUDE

(* C16: the frequency of a newly spawned particle is                       *)
(* calculateNodeFrequency(position) when a position was supplied, and       *)
(* otherwise within 5 Hz of the frequency of some non-corner node (the grid *)
(* has non-corner nodes, so the fallback draw is never used).               *)
NearNonCornerNode(freq) ==
  \E n \in 1..Len(nodes) :
    ~nodes[n].isCorner /\ Abs(freq - nodes[n].frequency * FreqScale) <= 5 * FreqScale

C16_SpawnFrequency ==
  [][ (last'.op \in SpawnOps /\ Len(particles') = Len(particles) + 1) =>
        LET p == particles'[Len(particles')]
        IN /\ p.baseFrequency = p.locationalFrequency
           /\ IF last'.op = "click"
              THEN p.baseFrequency = calculateNodeFrequency(last'.pos) * FreqScale
              ELSE NearNonCornerNode(p.baseFrequency) ]_vars

(* C16 witness: the store holds a particle spawned 5 Hz below the lowest    *)
(* non-corner frequency and a particle spawned at the frequency of an       *)
(* off-lattice position.                                                    *)
C16_Witness ==
  /\ last.op = "click"
  /\ last.pos = <<3, -7, 10>>
  /\ Len(particles) = Len(last.before) + 1
  /\ particles[Len(particles)].baseFrequency = 2800
  /\ \E i \in 1..Len(particles) : particles[i].baseFrequency = 1930

(* C17: grid generation depends on the configuration only (the same         *)
(* configuration gives the same sequence of nodes), it makes one node per   *)
(* lattice point, in strictly increasing order of (x, y, z) and so with     *)
(* distinct ids, isCorner is true exactly where all three coordinates are   *)
(* at the extremity, and every frequency lies in [100, 999].                *)
WellFormedGrid(g, size, spacing) ==
  LET h == size \div 2
  IN /\ Len(g) = (2 * h + 1) * (2 * h + 1) * (2 * h + 1)
     /\ \A n \in 1..Len(g) :
          /\ g[n].isCorner <=> /\ Abs(g[n].position[1]) = h * spacing
                               /\ Abs(g[n].position[2]) = h * spacing
                               /\ Abs(g[n].position[3]) = h * spacing
          /\ g[n].position = << g[n].id[1] * spacing, g[n].id[2] * spacing,
                                g[n].id[3] * spacing >>
          /\ g[n].frequency >= FREQ_LOW
          /\ g[n].frequency <= FREQ_HIGH
     /\ \A n \in 2..Len(g) :
          LET a == g[n - 1].id
              b == g[n].id
          IN \/ a[1] < b[1]
             \/ a[1] = b[1] /\ a[2] < b[2]
             \/ a[1] = b[1] /\ a[2] = b[2] /\ a[3] < b[3]

Survivors(step) == SelectSeq(step.resolved, LAMBDA p : p.id \notin step.remove)

C18_TickResultIsComplete ==
  [][ /\ last'.op \in {"tick", "seed", "click", "deferred", "advance"}
      /\ last'.op # "advance" => now' = now
      /\ last'.op # "tick" =>
            /\ nextTick' = nextTick
            /\ gridAngularVelocity' = gridAngularVelocity
            /\ \A i \in 1..Len(particles) : particles'[i] = particles[i]
      /\ last'.op = "tick" =>
            LET st == last'.step
            IN /\ Len(st.drifted) = Len(particles)
               /\ \A k \in 1..Len(particles) :
                    st.drifted[k] = AssignNearest(DriftDecay(particles[k], last'.jit[k],
                                                             Damped(gridAngularVelocity)))
               /\ Ids(particles') \cap st.remove = {}
               /\ SubSeq(particles', 1, Len(Survivors(st))) = Survivors(st)
               /\ Len(particles') <= Len(Survivors(st)) + 1 ]_vars

(* C18 witness: a tick that removed the occupants of a supernova has        *)
(* published exactly the survivors.                                         *)
C18_Witness ==
  /\ TickDone
  /\ last.step.remove # {}
  /\ Len(particles) >= 1
  /\ particles = Survivors(last.step)

(* C19: in a tick a particle that takes part in no collision loses 0.005   *)
(* of amplitude, 0.02 of harmonicFactor and 0.002 of energyLevel, each      *)
(* stopped at its floor; and a particle above a floor is eventually at its  *)
(* floors (or removed by a supernova).                                      *)
AtFloors(p) ==
  /\ p.amplitude = DEFAULT_AMPLITUDE
  /\ p.harmonicFactor = MIN_HARMONIC
  /\ p.energyLevel = MIN_ENERGY

Alone(step, k) ==
  \A j \in 1..Len(step.drifted) :
    j # k => step.drifted[j].targetNodeId # step.drifted[k].targetNodeId

(* the claim's figures, in units of 1/10000 (amplitude, harmonicFactor)     *)
(* and 1/1000 (energyLevel)                                                 *)
DecayedOnce(before, after) ==
  /\ after.amplitude = Max(4000, before.amplitude - 50)
  /\ after.harmonicFactor = Max(10000, before.harmonicFactor - 200)
  /\ after.energyLevel = Max(100, before.energyLevel - 2)

AboveFloors(id) == \E i \in 1..Len(particles) : particles[i].id = id /\ ~AtFloors(particles[i])

Settled(id) == \A i \in 1..Len(particles) : particles[i].id = id => AtFloors(particles[i])

C19_DecayToFloors ==
  /\ [][ last'.op = "tick" =>
           \A k \in 1..Len(particles) :
             Alone(last'.step, k) =>
               \E i \in 1..Len(particles') :
                 /\ particles'[i].id = particles[k].id
                 /\ DecayedOnce(particles[k], particles'[i]) ]_vars
  /\ \A id \in 1..(MAX_PARTICLES + MaxDecaySeeds) : AboveFloors(id) ~> Settled(id)

(* C19 witness: a particle that collided once and then sat alone has just   *)
(* reached the last of its floors.                                          *)
C19_Witness ==
  /\ TickDone
  /\ \E k \in 1..Len(last.before) :
       /\ Alone(last.step, k)
       /\ last.before[k].energyLevel = MIN_ENERGY + 2
       /\ last.before[k].amplitude = DEFAULT_AMPLITUDE
       /\ \E i \in 1..Len(particles) :
            particles[i].id = last.before[k].id /\ AtFloors(particles[i])

(* C20: in a tick the drift of every particle is its random draw plus the   *)
(* rotational term computed from the angular velocity as damped by this     *)
(* tick, before any torque of this tick, and from the target node the       *)
(* particle had before the tick; the same angular velocity serves every     *)
(* particle, and between ticks the angular velocity does not change, so     *)
(* the torque of one tick first acts on the drift of the next.              *)
RotationOn(av, nodeId) ==
  IF NonNegligible(av) /\ NodeById(nodeId).found
  THEN RotationalDrift(av, NodeById(nodeId).node)
  ELSE 0

C20_DriftUsesDampedVelocity ==
  [][ /\ last'.op # "tick" => gridAngularVelocity' = gridAngularVelocity
      /\ last'.op = "tick" =>
            /\ last'.av = Damped(gridAngularVelocity)
            /\ \A k \in 1..Len(particles) :
                 last'.step.drifted[k].locationalFrequency =
                   ClampFrequency(particles[k].locationalFrequency + last'.jit[k]
                                  + RotationOn(Damped(gridAngularVelocity),
                                               particles[k].targetNodeId)) ]_vars

(* C20 witness: a tick whose damped angular velocity moved a particle, and  *)
(* whose own corner torque would have moved it differently.                 *)
C20_Witness ==
  /\ TickDone
  /\ NonNegligible(last.av)
  /\ gridAngularVelocity # last.av
  /\ \E k \in 1..Len(last.before) :
       /\ RotationOn(last.av, last.before[k].targetNodeId) # 0
       /\ RotationOn(gridAngularVelocity, last.before[k].targetNodeId)
            # RotationOn(last.av, last.before[k].targetNodeId)

(* C21: the field starts at rest; a tick that starts at rest and has no     *)
(* particle with energyLevel above 0.2 on a corner node leaves the angular  *)
(* velocity zero and the orientation as it was; a tick whose damped angular *)
(* velocity has squared magnitude at most 0.000001 leaves the orientation   *)
(* unchanged and drifts every particle by its random draw alone; and no     *)
(* step other than a tick, a spawn in particular, changes the angular       *)
(* velocity or the orientation.                                             *)
NoCornerEnergy(q) == \A k \in 1..Len(q) : TorqueOfParticle(q[k]) = ZeroVec

C21_TorqueIsTheOnlySource ==
  /\ (gridAngularVelocity = ZeroVec /\ gridRotation = ZeroVec)
  /\ [][ /\ last'.op # "tick" =>
              /\ gridAngularVelocity' = gridAngularVelocity
              /\ gridRotation' = gridRotation
         /\ last'.op = "tick" =>
              /\ (gridAngularVelocity = ZeroVec /\ NoCornerEnergy(last'.step.drifted)) =>
                    /\ gridAngularVelocity' = ZeroVec
                    /\ gridRotation' = gridRotation
              /\ LengthSq(Damped(gridAngularVelocity)) <= EPSILON_SQ =>
                    /\ gridRotation' = gridRotation
                    /\ \A k \in 1..Len(particles) :
                         last'.step.drifted[k].locationalFrequency =
                           ClampFrequency(particles[k].locationalFrequency + last'.jit[k])
              /\ LengthSq(Damped(gridAngularVelocity)) > EPSILON_SQ =>
                    gridRotation' # gridRotation ]_vars

(* C21 witness: a tick whose damped angular velocity was not zero but below *)
(* the threshold, large enough that the rotational term of some particle    *)
(* would not have been zero; the orientation is still the identity.         *)
C21_Witness ==
  /\ TickDone
  /\ last.av # ZeroVec
  /\ LengthSq(last.av) <= EPSILON_SQ
  /\ gridRotation = ZeroVec
  /\ \E k \in 1..Len(last.before) :
       /\ NodeById(last.before[k].targetNodeId).found
       /\ RotationalDrift(last.av, NodeById(last.before[k].targetNodeId).node) # 0
       /\ Drifted[k].locationalFrequency = last.before[k].locationalFrequency

(* C22: no step changes the baseFrequency of a particle that stays in the   *)
(* store, and within a tick the drifted and the resolved particle carry the *)
(* baseFrequency the particle had before; the harmonicFactor a collision    *)
(* gives to the first occupant of its node is computed from the             *)
(* baseFrequency of the participants (and their amplitudes), whatever       *)
(* their locationalFrequency.                                               *)
FirstOccupantHarmonic(q, idxs) ==
  LET cur == idxs[1]
      n == Len(idxs) - 1
      avgBase == TruncDiv(SumSeq([k \in 1..n |-> q[idxs[k + 1]].baseFrequency]), n)
      avgAmp == SumSeq([k \in 1..n |-> q[idxs[k + 1]].amplitude]) \div n
      factor == (q[cur].amplitude + avgAmp) \div 2
      increase == (((ResonanceFactor(Abs(q[cur].baseFrequency - avgBase)) * factor)
                     \div 10000) * (6 + 2 * n)) \div 10
  IN Min(MAX_HARMONIC, q[cur].harmonicFactor + increase)

C22_BaseFrequencyIsImmutable ==
  [][ /\ \A i \in 1..Len(particles), j \in 1..Len(particles') :
           particles'[j].id = particles[i].id =>
             particles'[j].baseFrequency = particles[i].baseFrequency
      /\ last'.op = "tick" =>
            LET st == last'.step
            IN /\ \A k \in 1..Len(particles) :
                    /\ st.drifted[k].baseFrequency = particles[k].baseFrequency
                    /\ st.resolved[k].baseFrequency = particles[k].baseFrequency
               /\ \A k \in 1..Len(st.collisions) :
                    LET idxs == Occupants(st.drifted, st.collisions[k].nodeId)
                    IN st.resolved[idxs[1]].harmonicFactor
                         = FirstOccupantHarmonic(st.drifted, idxs) ]_vars

(* C22 witness: a collision of two particles whose locationalFrequency      *)
(* has drifted away from their baseFrequency, far enough that the           *)
(* resonance of the two pairs of values differs.                            *)
C22_Witness ==
  /\ TickDone
  /\ \E k \in 1..Len(last.step.collisions) :
       LET idxs == Occupants(Drifted, last.step.collisions[k].nodeId)
           a == Drifted[idxs[1]]
           b == Drifted[idxs[2]]
       IN /\ Len(idxs) = 2
          /\ a.locationalFrequency # a.baseFrequency
          /\ ResonanceFactor(Abs(a.locationalFrequency - b.locationalFrequency))
               # ResonanceFactor(Abs(a.baseFrequency - b.baseFrequency))
          /\ \E i \in 1..Len(particles) :
               particles[i].id = a.id /\ particles[i].baseFrequency = a.baseFrequency

(* C23: in a tick every particle is an occupant of exactly one node, the    *)
(* occupancy being that of the whole drifted list; and what happens at a    *)
(* node -- the values collision resolution gives its occupants, its         *)
(* CollisionEvent, whether it triggers a supernova -- is what the drifted   *)
(* list alone determines for that node, whatever other nodes removed; the   *)
(* torque is that of every occupant of a corner node, removed or not.  The  *)
(* removal set is the union of the occupants of the triggering nodes, and   *)
(* the filter is applied to the list resolved at all nodes.                 *)
OccupiedKeys(step) == OccupiedNodes(step.drifted)

LocalOutcome(step, nodeId) ==
  LET idxs == Occupants(step.drifted, nodeId)
      alone == ResolveCollision(step.drifted, idxs)
  IN /\ \A k \in 1..Len(idxs) : step.resolved[idxs[k]] = alone[idxs[k]]
     /\ Len(idxs) > 1 <=>
          \E c \in 1..Len(step.collisions) :
            /\ step.collisions[c].nodeId = nodeId
            /\ step.collisions[c].particleIds = IdsOf(step.drifted, idxs)
     /\ SupernovaTriggered(alone, idxs) <=>
          \E e \in 1..Len(step.supernovas) : step.supernovas[e].id[2] = nodeId
     /\ SupernovaTriggered(alone, idxs) =>
          \A k \in 1..Len(idxs) : step.drifted[idxs[k]].id \in step.remove

C23_OccupancyBeforeRemoval ==
  TickDone =>
    LET st == last.step
        keys == OccupiedKeys(st)
    IN /\ Len(st.drifted) = Len(last.before)
       /\ \A i \in 1..Len(st.drifted) :
            Cardinality({ k \in 1..Len(keys) : keys[k] = st.drifted[i].targetNodeId }) = 1
       /\ SumSeq([k \in 1..Len(keys) |-> Len(Occupants(st.drifted, keys[k]))])
            = Len(last.before)
       /\ \A k \in 1..Len(keys) : LocalOutcome(st, keys[k])
       /\ AngularVelocityLaw
       /\ st.remove =
            UNION { SeqToSet(IdsOf(st.drifted, Occupants(st.drifted, keys[k]))) :
                      k \in { j \in 1..Len(keys) :
                                SupernovaTriggered(st.resolved,
                                                   Occupants(st.drifted, keys[j])) } }
       /\ particles = SelectSeq(st.resolved, LAMBDA q : q.id \notin st.remove)
            \/ (last.stabilized
                /\ SubSeq(particles, 1, Len(particles) - 1)
                     = SelectSeq(st.resolved, LAMBDA q : q.id \notin st.remove))

(* C23 witness: a tick in which the first node processed triggered a        *)
(* supernova and a node processed after it had a collision of its own,      *)
(* with all its occupants in the CollisionEvent.                            *)
C23_Witness ==
  /\ TickDone
  /\ Len(last.step.collisions) >= 2
  /\ Len(last.step.supernovas) >= 1
  /\ last.step.supernovas[1].id[2] = last.step.collisions[1].nodeId
  /\ Len(last.step.collisions[2].particleIds) >= 2
  /\ last.step.collisions[2].nodeId # last.step.collisions[1].nodeId

(* C24: a tick on an empty store leaves the store empty, publishes no       *)
(* event, schedules no timer, adds no torque (the angular velocity is only  *)
(* damped) and does not fire the stabilization rule; the rule does not      *)
(* fire either when the update of a tick leaves the store empty.            *)
C24_EmptyStoreTick ==
  [][ /\ (last'.op = "tick" /\ particles = <<>>) =>
            /\ particles' = <<>>
            /\ collisionEvents' = collisionEvents
            /\ supernovaEvents' = supernovaEvents
            /\ timers' = timers
            /\ gridAngularVelocity' = Damped(gridAngularVelocity)
            /\ nextId' = nextId
            /\ ~last'.stabilized
      /\ (last'.op = "tick" /\ last'.step.finalParticles = <<>>) =>
            /\ particles' = <<>>
            /\ ~last'.stabilized ]_vars

(* C24 witness: a tick has run on the empty store a supernova left, before  *)
(* the replacement spawn, which is still pending.                           *)
C24_Witness ==
  /\ TickDone
  /\ last.before = <<>>
  /\ particles = <<>>
  /\ SpawnTimers(timers) # {}
  /\ supernovaEvents # <<>>

(* C25: every particle in the store has energyLevel at least 0.1 and       *)
(* strictly below 1.0: a particle whose collision brought some participant  *)
(* to 1.0 is not in the store after the tick.                               *)
C25_EnergyBelowOne ==
  /\ \A i \in 1..Len(particles) :
       /\ particles[i].energyLevel >= MIN_ENERGY
       /\ particles[i].energyLevel < MAX_ENERGY
  /\ TickDone =>
       \A i \in 1..Len(Resolved) :
         Resolved[i].energyLevel >= MAX_ENERGY =>
           \A j \in 1..Len(Resolved) :
             Drifted[j].targetNodeId = Drifted[i].targetNodeId =>
               Resolved[j].id \notin Ids(particles)

(* C25 witness: a tick in which one participant of a collision reached 1.0  *)
(* and another of the same collision did not, both removed, while a         *)
(* particle that collided elsewhere survives with a raised energyLevel.     *)
C25_Witness ==
  /\ TickDone
  /\ \E i, j \in 1..Len(Resolved) :
       /\ Resolved[i].energyLevel >= MAX_ENERGY
       /\ Resolved[j].energyLevel < MAX_ENERGY
       /\ Drifted[j].targetNodeId = Drifted[i].targetNodeId
       /\ Resolved[j].id \notin Ids(particles)
  /\ \E k \in 1..Len(particles) : particles[k].energyLevel > MIN_ENERGY + ENERGY_GAIN

(* C26: the store holds one particle after construction; whenever it is    *)
(* empty a deferred replacement spawn is pending; and an empty store        *)
(* eventually holds a particle again.                                       *)
C26_NeverPermanentlyEmpty ==
  /\ Len(particles) = 1
  /\ [](particles = <<>> => SpawnTimers(timers) # {})
  /\ (particles = <<>>) ~> (particles # <<>>)

(* C26 witness: the deferred spawn of a supernova that had emptied the      *)
(* store has put one particle into it.                                      *)
C26_Witness ==
  /\ last.op = "deferred"
  /\ last.before = <<>>
  /\ Len(particles) = 1
  /\ last.origin.removed = last.origin.before

(* C27 (as claimed): every participant of a collision ends with the        *)
(* harmonicFactor and amplitude computed from the other participants'       *)
(* values as they were before the collision, so the order of the occupants  *)
(* does not matter; and two colliding particles with equal baseFrequency,   *)
(* amplitude and harmonicFactor before the collision end the tick with      *)
(* equal amplitude and harmonicFactor.                                      *)
FromSnapshot(step, i) ==
  CollideOne(step.drifted, i, Occupants(step.drifted, step.drifted[i].targetNodeId))[i]

C27_CollisionOrderIndependent ==
  TickDone =>
    /\ \A i \in 1..Len(Drifted) :
         /\ Resolved[i].harmonicFactor = FromSnapshot(last.step, i).harmonicFactor
         /\ Resolved[i].amplitude = FromSnapshot(last.step, i).amplitude
    /\ \A i, j \in 1..Len(Drifted) :
         ( /\ i # j
           /\ OccupantsAfterDrift(Drifted[i].targetNodeId) = {i, j}
           /\ Drifted[i].baseFrequency = Drifted[j].baseFrequency
           /\ Drifted[i].amplitude = Drifted[j].amplitude
           /\ Drifted[i].harmonicFactor = Drifted[j].harmonicFactor ) =>
             /\ Resolved[i].amplitude = Resolved[j].amplitude
             /\ Resolved[i].harmonicFactor = Resolved[j].harmonicFactor

(* C28: every SupernovaEvent a tick publishes comes with a CollisionEvent  *)
(* of the same tick for the same node, of two particles or more; a tick     *)
(* publishes no more SupernovaEvents than CollisionEvents; no other step    *)
(* publishes a SupernovaEvent; and a particle alone on its node is not      *)
(* removed.                                                                 *)
NewEvents(before, after) == SubSeq(after, Len(before) + 1, Len(after))

C28_SupernovaNeedsCollision ==
  [][ IF last'.op = "tick"
      THEN LET sn == NewEvents(supernovaEvents, supernovaEvents')
               col == NewEvents(collisionEvents, collisionEvents')
           IN /\ Len(sn) <= Len(col)
              /\ \A e \in 1..Len(sn) :
                   \E c \in 1..Len(col) :
                     /\ col[c].nodeId = sn[e].id[2]
                     /\ col[c].timestamp = sn[e].timestamp
                     /\ Len(col[c].particleIds) >= 2
              /\ \A k \in 1..Len(particles) :
                   Alone(last'.step, k) =>
                     /\ particles[k].id \in Ids(particles')
                     /\ \A e \in 1..Len(sn) :
                          sn[e].id[2] # last'.step.drifted[k].targetNodeId
      ELSE Len(supernovaEvents') <= Len(supernovaEvents) ]_vars

(* C28 witness: a tick has published two CollisionEvents and one           *)
(* SupernovaEvent, and a particle alone on its node is still in the store.  *)
C28_Witness ==
  /\ TickDone
  /\ Len(last.step.collisions) = 2
  /\ Len(last.step.supernovas) = 1
  /\ Cardinality(PublishedSupernovas) = 1
  /\ \E k \in 1..Len(Drifted) : Alone(last.step, k) /\ Drifted[k].id \in Ids(particles)

(* C29: recomputing the targets of the particles in the store changes     *)
(* nothing, in every state; and a spawn request, accepted or rejected,      *)
(* leaves every particle that was in the store equal in every attribute     *)
(* and at its place, the new particle, if any, coming last.                 *)
C29_SpawnLeavesOthersUnchanged ==
  /\ [](updateTargetNodes(particles) = particles)
  /\ [][ last'.op \in SpawnOps =>
           /\ Len(particles') \in { Len(particles), Len(particles) + 1 }
           /\ Len(particles') = Len(particles) <=> Len(particles) >= MAX_PARTICLES
           /\ \A i \in 1..Len(particles) :
                /\ particles'[i] = particles[i]
                /\ particles'[i].targetNodeId
                     = nodes[findNearestNode(particles[i].locationalFrequency)].id ]_vars

(* C29 witness: a spawn onto a store holding a particle that has drifted    *)
(* to a node other than the one of its creation; the particle is as it was. *)
C29_Witness ==
  /\ last.op \in SpawnOps
  /\ Len(particles) = Len(last.before) + 1
  /\ \E i \in 1..Len(last.before) :
       /\ particles[i] = last.before[i]
       /\ last.before[i].targetNodeId # TargetIdOf(last.before[i].baseFrequency)

====
